---- MODULE Spec2Model ----
(***************************************************************************)
(* TubeMind AI (src/app.py): a Streamlit script that, once the "Analyze    *)
(* Channel" button has been pressed in a session, runs a four stage        *)
(* pipeline (channel lookup, playlist enumeration, video detail fetch,     *)
(* Gemini summary) on every rerun of the script.                           *)
(*                                                                         *)
(* One behaviour of the model is one browser session.  A script run is     *)
(* split at the external calls: the run starts in Load / Rerun /           *)
(* EditChannelId / PressAnalyze (lines 8-91) and continues through         *)
(* Connect, ChannelLookup, GetVideoIds, GetVideoDetails, Charts, Analyze.  *)
(* Every external call is synchronous, so the action that issues a         *)
(* request also draws the upstream answer.                                 *)
(***************************************************************************)
EXTENDS Integers, Sequences, FiniteSets, TLC

\* ------------------------------------------------------------------ bounds
\* Largest uploads playlist the upstream service holds.
MaxPlaylist == 12

\* ------------------------------------------------------- program constants
\* maxResults=10 of the playlistItems request.
maxResults_wrong == 10 * 5
maxResults == 10

\* df[...].head(5)
head_n == 5

DefaultChannelId == "UCeVMnSShP_Iviwkknt83cww"

ChannelIds == {DefaultChannelId, "UCother"}

PlaylistIds == {"UUa", "UUb"}

SecretKeys == {"YOUTUBE_API_KEY", "GEMINI_API_KEY"}

CounterFields == {"viewCount", "likeCount", "commentCount"}

ChannelBlocks == {"snippet", "statistics", "contentDetails"}

\* ----------------------------------------------------------------- helpers
Min(a, b) == IF a < b THEN a ELSE b

\* Python's None, and an Optional value held as a sequence of length <= 1.
None == <<>>

\* Result of a call that may raise: err = "" when it returned.
Ok(v) == [err |-> "", val |-> v]

Raised(e, v) == [err |-> e, val |-> v]

\* One element written to the page.
El(k, t) == [kind |-> k, text |-> t]

\* ------------------------------------------------ upstream data (YouTube)
\* Counter values travel as strings of decimal digits; a string is a
\* sequence of one-character strings.
Digits == <<"0", "1", "2", "3", "4", "5", "6", "7", "8", "9">>

RECURSIVE Str(_)
Str(n) == IF n < 10 THEN <<Digits[n + 1]>> ELSE Str(n \div 10) \o <<Digits[(n % 10) + 1]>>

\* What the catalogue holds for video `id`.
ViewsOf(id) == id * 10

LikesOf(id) == id

CommentsOf(id) == id % 3

TitleOf(id) == 1000 + id

FullStats(id) ==
    [f \in CounterFields |->
        CASE f = "viewCount" -> Str(ViewsOf(id))
          [] f = "likeCount" -> Str(LikesOf(id))
          [] OTHER -> Str(CommentsOf(id))]

\* A video item of a videos.list response.  `blocks` are the top-level
\* blocks present, `thumb` whether snippet.thumbnails.high.url exists, and
\* `statistics` maps the counters that are present to their strings.
VideoItem(id, defect) ==
    [id |-> id,
     blocks |-> CASE defect.kind = "no_statistics" -> {"snippet"}
                  [] defect.kind = "no_snippet" -> {"statistics"}
                  [] OTHER -> {"snippet", "statistics"},
     title |-> TitleOf(id),
     thumb |-> defect.kind # "no_thumbnail",
     statistics |->
        [f \in CounterFields \ defect.absent |->
            IF defect.kind = "bad_counter" /\ f = "viewCount" THEN <<"x">>
            ELSE FullStats(id)[f]]]

NoDefect == [kind |-> "none", absent |-> {}]

Defects ==
    {[kind |-> k, absent |-> {}] :
        k \in {"no_statistics", "no_snippet", "no_thumbnail", "bad_counter"}}
    \cup {[kind |-> "absent", absent |-> A] : A \in (SUBSET CounterFields) \ {{}}}

\* The uploads playlist of size n lists the videos n, n-1, ..., 1 (newest
\* first); the service answers with at most `limit` items of it.
PlaylistItem(id, whole) == [hasContentDetails |-> whole, videoId |-> id]

PlaylistResponse(n, limit, broken) ==
    [items |-> [i \in 1..Min(n, limit) |-> PlaylistItem(n + 1 - i, i # broken)]]

\* ','.join(video_ids) and the service's reading of the id parameter.
RECURSIVE join(_)
join(ids) ==
    IF ids = <<>> THEN <<>>
    ELSE IF Len(ids) = 1 THEN <<Head(ids)>>
    ELSE <<Head(ids), ",">> \o join(Tail(ids))

\* The ids of an id parameter (every odd position; the even ones are commas).
SplitIds(param) == [i \in 1..((Len(param) + 1) \div 2) |-> param[2 * i - 1]]

Reverse(s) == [i \in 1..Len(s) |-> s[Len(s) + 1 - i]]

DropAt(s, k) == [i \in 1..(Len(s) - 1) |-> IF i < k THEN s[i] ELSE s[i + 1]]

\* The orders in which the service may answer a batch of ids: as asked,
\* reversed, or with the k-th id left out (deleted or private video).
Arrangements(ids) ==
    {ids, Reverse(ids)} \cup {DropAt(ids, k) : k \in 1..Len(ids)}

VideosResponse(order, pos, defect) ==
    [items |-> [i \in 1..Len(order) |->
                    VideoItem(order[i], IF i = pos THEN defect ELSE NoDefect)]]

\* ----------------------------------------------------- the engine (pure)
\* get_channel_stats, after request.execute(): first item or None.
get_channel_stats_wrong(response) ==
    IF response.items # <<>> THEN <<response.items[1]>>
    ELSE <<[blocks |-> ChannelBlocks, uploads |-> "UUa"]>>

get_channel_stats(response) ==
    IF response.items # <<>> THEN <<response.items[1]>> ELSE None

\* `if channel_info:` -- None and an empty dict are both falsy.
Truthy(channel_info) == channel_info # None /\ channel_info[1].blocks # {}

\* get_video_ids, after request.execute(): one id per item, in order.
RECURSIVE video_ids_loop(_, _)
video_ids_loop(items, acc) ==
    IF items = <<>> THEN Ok(acc)
    ELSE IF ~Head(items).hasContentDetails THEN Raised("KeyError", acc)
    ELSE video_ids_loop(Tail(items), Append(acc, Head(items).videoId))

get_video_ids(response) == video_ids_loop(response.items, <<>>)

\* int() of a counter string.
IsDigit(c) == \E d \in 1..10 : Digits[d] = c

DigitVal(c) == (CHOOSE d \in 1..10 : Digits[d] = c) - 1

RECURSIVE int_loop(_, _)
int_loop(s, acc) ==
    IF s = <<>> THEN acc ELSE int_loop(Tail(s), acc * 10 + DigitVal(Head(s)))

int(s) ==
    IF s # <<>> /\ \A i \in 1..Len(s) : IsDigit(s[i]) THEN Ok(int_loop(s, 0))
    ELSE Raised("ValueError", 0)

\* int(stats.get(field, 0))
counter_wrong(stats, field) ==
    IF field \in DOMAIN stats THEN int(stats[field]) ELSE Ok(0 - 1)

counter(stats, field) ==
    IF field \in DOMAIN stats THEN int(stats[field]) ELSE Ok(0)

NoRecord == [Title |-> 0, Views |-> 0, Likes |-> 0, Comments |-> 0, Thumbnail |-> 0]

\* Body of the loop of get_video_details (lines 49-57), in evaluation order.
video_record_wrong(video) ==
    LET stats == IF "statistics" \in video.blocks THEN video.statistics
                 ELSE [f \in {} |-> <<>>]
        v == counter(stats, "viewCount")
        l == counter(stats, "likeCount")
        c == counter(stats, "commentCount")
    IN  IF "snippet" \notin video.blocks THEN Raised("KeyError", NoRecord)
        ELSE IF v.err # "" THEN Raised(v.err, NoRecord)
        ELSE IF l.err # "" THEN Raised(l.err, NoRecord)
        ELSE IF c.err # "" THEN Raised(c.err, NoRecord)
        ELSE IF ~video.thumb THEN Raised("KeyError", NoRecord)
        ELSE Ok([Title |-> video.title, Views |-> v.val, Likes |-> l.val,
                 Comments |-> c.val, Thumbnail |-> video.id])

video_record(video) ==
    LET v == counter(video.statistics, "viewCount")
        l == counter(video.statistics, "likeCount")
        c == counter(video.statistics, "commentCount")
    IN  IF "statistics" \notin video.blocks THEN Raised("KeyError", NoRecord)
        ELSE IF "snippet" \notin video.blocks THEN Raised("KeyError", NoRecord)
        ELSE IF v.err # "" THEN Raised(v.err, NoRecord)
        ELSE IF l.err # "" THEN Raised(l.err, NoRecord)
        ELSE IF c.err # "" THEN Raised(c.err, NoRecord)
        ELSE IF ~video.thumb THEN Raised("KeyError", NoRecord)
        ELSE Ok([Title |-> video.title, Views |-> v.val, Likes |-> l.val,
                 Comments |-> c.val, Thumbnail |-> video.id])

\* get_video_details, after request.execute(): one record per item.
RECURSIVE video_details_loop(_, _)
video_details_loop(items, acc) ==
    IF items = <<>> THEN Ok(acc)
    ELSE LET r == video_record(Head(items))
         IN  IF r.err # "" THEN Raised(r.err, acc)
             ELSE video_details_loop(Tail(items), Append(acc, r.val))

RECURSIVE insert_by_title(_, _)
insert_by_title(r, s) ==
    IF s = <<>> THEN <<r>>
    ELSE IF r.Title <= Head(s).Title THEN <<r>> \o s
    ELSE <<Head(s)>> \o insert_by_title(r, Tail(s))

RECURSIVE sort_by_title(_)
sort_by_title(s) ==
    IF s = <<>> THEN <<>> ELSE insert_by_title(Head(s), sort_by_title(Tail(s)))

get_video_details_wrong(response) ==
    LET r == video_details_loop(response.items, <<>>)
    IN  [err |-> r.err, val |-> sort_by_title(r.val)]

get_video_details(response) == video_details_loop(response.items, <<>>)

\* pd.DataFrame(video_data): the columns come from the records, so an empty
\* list gives a frame without columns.
DataFrame(video_data) ==
    [columns |-> IF video_data = <<>> THEN {}
                 ELSE {"Title", "Views", "Likes", "Comments", "Thumbnail"},
     rows |-> video_data]

\* df[['Title', 'Views', 'Likes']].head(5).to_string(): KeyError when a
\* column is missing, else one line per kept row: index, title, views, likes.
data_summary_wrong(df) ==
    IF ~({"Title", "Views", "Likes"} \subseteq df.columns) THEN Raised("KeyError", <<>>)
    ELSE Ok([i \in 1..Min(head_n + 1, Len(df.rows)) |->
                [index |-> i - 1, Title |-> df.rows[i].Title,
                 Views |-> df.rows[i].Views, Likes |-> df.rows[i].Likes]])

data_summary(df) ==
    IF ~({"Title", "Views", "Likes"} \subseteq df.columns) THEN Raised("KeyError", <<>>)
    ELSE Ok([i \in 1..Min(head_n, Len(df.rows)) |->
                [index |-> i - 1, Title |-> df.rows[i].Title,
                 Views |-> df.rows[i].Views, Likes |-> df.rows[i].Likes]])

\* -------------------------------------------------- the script (lines 8-91)
\* Lines 8-13: the try block reads both keys; the bare except reports and
\* st.stop() ends the run.
StartupHalts_wrong(s) == "YOUTUBE_API_KEY" \notin s

StartupHalts(s) == ~(SecretKeys \subseteq s)

\* Lines 87-88: session_state is the set of keys holding True.
button_wrong(state, press) == IF press THEN state \cup {"analyze"} ELSE state \ {"analyze"}

button(state, press) == IF press THEN state \cup {"analyze"} ELSE state

\* Line 91: st.session_state.get('analyze')
get_analyze(state) == "analyze" \in state

\* Lines 102-107: the channel header, then the uploads playlist id.  val is
\* what reached the page before the first missing block raised.
channel_header(info) ==
    LET image == <<El("image", "thumbnail")>>
        title == image \o <<El("write", "Channel")>>
        subs == title \o <<El("write", "Subscribers")>>
    IN  IF "snippet" \notin info.blocks THEN Raised("KeyError", <<>>)
        ELSE IF "statistics" \notin info.blocks THEN Raised("KeyError", title)
        ELSE IF "contentDetails" \notin info.blocks THEN Raised("KeyError", subs)
        ELSE Ok(subs)

\* Line 107.
uploads_of_wrong(info) == "UUa"

uploads_of(info) == info.uploads

\* Lines 133-134: the outer handler.
handler(out, e) == Append(out, El("error", e))

\* What the channels.list call may answer: no item, or one item with any one
\* block missing, or (an empty dict) all of them.
ChannelItems ==
    {[blocks |-> b, uploads |-> u] :
        b \in {ChannelBlocks, {}} \cup {ChannelBlocks \ {x} : x \in ChannelBlocks},
        u \in PlaylistIds}

ChannelResponses == {[items |-> <<>>]} \cup {[items |-> <<it>>] : it \in ChannelItems}

Net == {"ok", "HttpError"}

PageTop == <<El("title", "TubeMind AI"), El("subheader", "Strategist"), El("header", "sidebar")>>

VARIABLES
    secrets,            \* keys present in st.secrets
    session_state,      \* st.session_state
    channel_id_input,   \* value of the text input
    sidebar,            \* the last run rendered the sidebar widgets
    pc,                 \* position of the running script, "idle" between runs
    outcome,            \* how the last run ended
    output,             \* elements on the page, in order
    calls,              \* external requests issued by the current run
    channel_req,        \* id= of the channels request
    playlist_req,       \* playlistId= of the playlistItems request
    results_req,        \* maxResults= of the playlistItems request
    videos_req,         \* id= of the videos request
    prompt,             \* rows embedded in the prompt sent to Gemini
    channel_info, uploads_id, video_ids, video_data, df,
    channel_resp,       \* <<response>> of the channels request once answered
    playlist_size,      \* size of the playlist the enumerator was answered from
    playlist_resp,      \* <<response>> of the playlistItems request once answered
    video_resp,         \* <<response>> of the videos request once answered
    net_fault,          \* call of this run that raised on the wire, or ""
    trigger,            \* what started the current run
    pressed             \* the button has been pressed in this session

vars ==
    <<secrets, session_state, channel_id_input, sidebar, pc, outcome, output,
      calls, channel_req, playlist_req, results_req, videos_req, prompt,
      channel_info, uploads_id, video_ids, video_data, df, channel_resp,
      playlist_size, playlist_resp, video_resp, net_fault, trigger, pressed>>

session == <<secrets, session_state, channel_id_input, sidebar, trigger, pressed>>

requests == <<channel_req, playlist_req, results_req, videos_req, prompt>>

locals ==
    <<channel_info, uploads_id, video_ids, video_data, df, channel_resp,
      playlist_size, playlist_resp, video_resp>>

FreshRun ==
    /\ calls' = <<>>
    /\ channel_req' = ""
    /\ playlist_req' = ""
    /\ results_req' = 0
    /\ videos_req' = <<>>
    /\ prompt' = <<>>
    /\ channel_info' = None
    /\ uploads_id' = ""
    /\ video_ids' = <<>>
    /\ video_data' = <<>>
    /\ df' = DataFrame(<<>>)
    /\ channel_resp' = None
    /\ playlist_size' = 0
    /\ playlist_resp' = None
    /\ video_resp' = None
    /\ net_fault' = ""

Init ==
    /\ secrets \in SUBSET SecretKeys
    /\ session_state = {}
    /\ channel_id_input = DefaultChannelId
    /\ sidebar = FALSE
    /\ pc = "idle"
    /\ outcome = "new"
    /\ output = <<>>
    /\ calls = <<>>
    /\ channel_req = ""
    /\ playlist_req = ""
    /\ results_req = 0
    /\ videos_req = <<>>
    /\ prompt = <<>>
    /\ channel_info = None
    /\ uploads_id = ""
    /\ video_ids = <<>>
    /\ video_data = <<>>
    /\ df = DataFrame(<<>>)
    /\ channel_resp = None
    /\ playlist_size = 0
    /\ playlist_resp = None
    /\ video_resp = None
    /\ net_fault = ""
    /\ trigger = "none"
    /\ pressed = FALSE

\* One run of the script from the top down to line 91, with the text input
\* holding `id` and the button reporting `press`.
ScriptRun(press, id) ==
    /\ FreshRun
    /\ UNCHANGED secrets
    /\ IF StartupHalts(secrets)
       THEN /\ output' = <<El("error", "Secrets not found!")>>
            /\ sidebar' = FALSE
            /\ pc' = "idle"
            /\ outcome' = "stopped"
            /\ UNCHANGED <<session_state, channel_id_input, pressed>>
       ELSE /\ output' = PageTop
            /\ sidebar' = TRUE
            /\ channel_id_input' = id
            /\ pressed' = (pressed \/ press)
            /\ session_state' = button(session_state, press)
            /\ IF get_analyze(session_state')
               THEN pc' = "connect" /\ outcome' = "running"
               ELSE pc' = "idle" /\ outcome' = "waiting"

\* The session opens: first run, default channel id, nothing pressed.
Load ==
    /\ pc = "idle" /\ outcome = "new"
    /\ trigger' = "load"
    /\ ScriptRun(FALSE, DefaultChannelId)

\* A rerun without any widget change.
Rerun ==
    /\ pc = "idle" /\ outcome # "new"
    /\ trigger' = "rerun"
    /\ ScriptRun(FALSE, channel_id_input)

\* The user edits the channel id; the script reruns.
EditChannelId ==
    /\ pc = "idle" /\ sidebar
    /\ trigger' = "edit"
    /\ \E id \in ChannelIds \ {channel_id_input} : ScriptRun(FALSE, id)

\* The user presses "Analyze Channel"; the script reruns.
PressAnalyze ==
    /\ pc = "idle" /\ sidebar
    /\ trigger' = "press"
    /\ ScriptRun(TRUE, channel_id_input)

\* except Exception as e: st.error(f"Error: {e}") -- the run is over.
Fail(out, e) ==
    /\ output' = handler(out, e)
    /\ pc' = "idle"
    /\ outcome' = "error"

\* Line 94: googleapiclient.discovery.build.
Connect ==
    /\ pc = "connect"
    /\ \E ok \in BOOLEAN :
        IF ok THEN pc' = "channel" /\ UNCHANGED <<outcome, output>>
        ELSE Fail(output, "BuildError")
    /\ net_fault' = IF pc' = "idle" THEN "build" ELSE net_fault
    /\ UNCHANGED <<session, calls, requests, locals>>

\* Lines 97-107 and 130-131: get_channel_stats and the channel header.
ChannelLookup ==
    /\ pc = "channel"
    /\ calls' = Append(calls, "channels")
    /\ channel_req' = channel_id_input
    /\ \E net \in Net, response \in ChannelResponses :
        IF net # "ok"
        THEN /\ Fail(output, net)
             /\ net_fault' = "channels"
             /\ UNCHANGED <<channel_info, uploads_id, channel_resp>>
        ELSE /\ net_fault' = net_fault
             /\ channel_resp' = <<response>>
             /\ channel_info' = get_channel_stats(response)
             /\ IF Truthy(channel_info')
                THEN LET h == channel_header(channel_info'[1])
                     IN  IF h.err # ""
                         THEN Fail(output \o h.val, h.err) /\ UNCHANGED uploads_id
                         ELSE /\ output' = output \o h.val
                              /\ uploads_id' = uploads_of(channel_info'[1])
                              /\ pc' = "video_ids"
                              /\ UNCHANGED outcome
                ELSE /\ output' = Append(output, El("error", "Channel not found! Check the ID."))
                     /\ pc' = "idle"
                     /\ outcome' = "not_found"
                     /\ UNCHANGED uploads_id
    /\ UNCHANGED <<session, playlist_req, results_req, videos_req, prompt,
                   video_ids, video_data, df, playlist_size, playlist_resp, video_resp>>

\* Line 108: get_video_ids.
GetVideoIds ==
    /\ pc = "video_ids"
    /\ calls' = Append(calls, "playlistItems")
    /\ playlist_req' = uploads_id
    /\ results_req' = maxResults
    /\ \E net \in Net, n \in 0..MaxPlaylist, broken \in 0..1 :
        IF net # "ok"
        THEN /\ Fail(output, net)
             /\ net_fault' = "playlistItems"
             /\ UNCHANGED <<video_ids, playlist_size, playlist_resp>>
        ELSE LET response == PlaylistResponse(n, results_req', broken)
                 r == get_video_ids(response)
             IN  /\ net_fault' = net_fault
                 /\ playlist_size' = n
                 /\ playlist_resp' = <<response>>
                 /\ IF r.err # ""
                    THEN Fail(output, r.err) /\ UNCHANGED video_ids
                    ELSE /\ video_ids' = r.val
                         /\ pc' = "video_details"
                         /\ UNCHANGED <<outcome, output>>
    /\ UNCHANGED <<session, channel_req, videos_req, prompt, channel_info,
                   uploads_id, video_data, df, channel_resp, video_resp>>

\* Lines 109-110: get_video_details, then the DataFrame.  An empty id
\* parameter is ill-defined upstream: the service may refuse it or answer
\* with no items.
GetVideoDetails ==
    /\ pc = "video_details"
    /\ calls' = Append(calls, "videos")
    /\ videos_req' = join(video_ids)
    /\ \E net \in Net, order \in Arrangements(SplitIds(videos_req')) :
       \E pos \in 0..Len(order), defect \in Defects :
        IF net # "ok"
        THEN /\ Fail(output, net)
             /\ net_fault' = "videos"
             /\ UNCHANGED <<video_data, df, video_resp>>
        ELSE LET response == VideosResponse(order, pos, defect)
                 r == get_video_details(response)
             IN  /\ net_fault' = net_fault
                 /\ video_resp' = <<response>>
                 /\ IF r.err # ""
                    THEN Fail(output, r.err) /\ UNCHANGED <<video_data, df>>
                    ELSE /\ video_data' = r.val
                         /\ df' = DataFrame(r.val)
                         /\ pc' = "charts"
                         /\ UNCHANGED <<outcome, output>>
    /\ UNCHANGED <<session, channel_req, playlist_req, results_req, prompt,
                   channel_info, uploads_id, video_ids, channel_resp,
                   playlist_size, playlist_resp>>

\* Lines 113-120: the two charts.  Whether a chart over a frame that lacks
\* the named columns raises is the charting library's choice.
Charts ==
    /\ pc = "charts"
    /\ LET top == output \o <<El("divider", ""), El("subheader", "View Count Analysis")>>
       IN  \E raises \in {FALSE, "Title" \notin df.columns} :
            IF raises THEN Fail(top, "ChartError")
            ELSE /\ output' = top \o <<El("bar_chart", "Views"),
                                       El("subheader", "Likes Analysis"),
                                       El("line_chart", "Likes")>>
                 /\ pc' = "analyze"
                 /\ UNCHANGED outcome
    /\ UNCHANGED <<session, calls, requests, locals, net_fault>>

\* Lines 123-128 and 61-75: analyze_with_gemini and the report.
Analyze ==
    /\ pc = "analyze"
    /\ LET top == output \o <<El("divider", ""), El("subheader", "AI Consultant Report")>>
           summary == data_summary(df)
       IN  IF summary.err # ""
           THEN /\ Fail(top, summary.err)
                /\ UNCHANGED <<calls, prompt, net_fault>>
           ELSE /\ prompt' = summary.val
                /\ calls' = Append(calls, "generate_content")
                /\ \E net \in Net :
                    IF net # "ok"
                    THEN Fail(top, net) /\ net_fault' = "generate_content"
                    ELSE /\ output' = top \o <<El("success", "Analysis Complete!"),
                                               El("markdown", "analysis")>>
                         /\ pc' = "idle"
                         /\ outcome' = "complete"
                         /\ UNCHANGED net_fault
    /\ UNCHANGED <<session, channel_req, playlist_req, results_req, videos_req, locals>>

Next ==
    \/ Load
    \/ Rerun
    \/ EditChannelId
    \/ PressAnalyze
    \/ Connect
    \/ ChannelLookup
    \/ GetVideoIds
    \/ GetVideoDetails
    \/ Charts
    \/ Analyze

Spec == Init /\ [][Next]_vars

\* ------------------------------------------------------------- properties
AllStages == <<"channels", "playlistItems", "videos", "generate_content">>

IsPrefix(a, b) == Len(a) <= Len(b) /\ \A i \in 1..Len(a) : a[i] = b[i]

Called(api) == \E i \in 1..Len(calls) : calls[i] = api

Kinds(out) == {out[i].kind : i \in 1..Len(out)}

Errors(out) == {i \in 1..Len(out) : out[i].kind = "error"}

HeaderKinds == {"image", "write"}

ResultKinds == {"image", "write", "bar_chart", "line_chart", "success", "markdown"}

\* A pipeline run has ended (as opposed to: no run yet, no pipeline, halted).
RunEnded == pc = "idle" /\ outcome \in {"complete", "not_found", "error"}

\* C1: whenever the channels response has no items, get_channel_stats gave
\* None, the run is over, the channels request is the only request of the
\* run, and the page holds nothing but its top and the "Channel not found"
\* message.
C1_NotFoundHalts ==
    (channel_resp # None /\ channel_resp[1].items = <<>>) =>
        /\ channel_info = None
        /\ pc = "idle" /\ outcome = "not_found"
        /\ calls = <<"channels">>
        /\ output = Append(PageTop, El("error", "Channel not found! Check the ID."))

C1_Witness ==
    /\ channel_resp = <<[items |-> <<>>]>>
    /\ outcome = "not_found"
    /\ trigger = "press"

\* C2: once the enumerator has returned no identifiers (channel with 0
\* uploads), the run issues no videos request.
C2_EmptyIdsNoCall ==
    (playlist_resp # None /\ playlist_resp[1].items = <<>>) => ~Called("videos")

\* C3 as claimed: a run that ended in the handler shows exactly one error
\* message, carrying the description, and nothing the run had produced.
C3_NoPartialResult ==
    (pc = "idle" /\ outcome = "error") =>
        /\ Cardinality(Errors(output)) = 1
        /\ output[Len(output)].kind = "error"
        /\ Kinds(output) \cap ResultKinds = {}

\* The failures a run was dealt, read off what the services answered.
ChannelMalformed ==
    /\ channel_resp # None /\ channel_resp[1].items # <<>>
    /\ channel_resp[1].items[1].blocks \notin {ChannelBlocks, {}}

PlaylistMalformed ==
    /\ playlist_resp # None
    /\ \E i \in 1..Len(playlist_resp[1].items) : ~playlist_resp[1].items[i].hasContentDetails

VideoLacksBlock ==
    /\ video_resp # None
    /\ \E i \in 1..Len(video_resp[1].items) :
        video_resp[1].items[i].blocks # {"snippet", "statistics"}

VideoMalformed ==
    /\ video_resp # None
    /\ \E i \in 1..Len(video_resp[1].items) :
        \/ ~video_resp[1].items[i].thumb
        \/ \E f \in DOMAIN video_resp[1].items[i].statistics :
            video_resp[1].items[i].statistics[f] = <<"x">>

\* C3 (amended): every failure a run is dealt ends the run in the outer
\* handler: the page ends with the one error message of the run, carrying
\* the description of the failure, and the last request of the run is the
\* one of the failing stage; what the run wrote before the failure stays.
\* A record set without records fails before the model is asked.
C3_FailurePropagates ==
    /\ (net_fault # "" \/ ChannelMalformed \/ PlaylistMalformed
            \/ VideoLacksBlock \/ VideoMalformed) =>
        /\ pc = "idle" /\ outcome = "error"
        /\ Cardinality(Errors(output)) = 1
        /\ output[Len(output)].kind = "error"
        /\ output[Len(output)].text =
              (IF net_fault = "build" THEN "BuildError"
               ELSE IF net_fault # "" THEN "HttpError"
               ELSE IF ChannelMalformed \/ PlaylistMalformed \/ VideoLacksBlock
               THEN "KeyError"
               ELSE output[Len(output)].text)
        /\ output[Len(output)].text \in {"BuildError", "HttpError", "KeyError", "ValueError"}
    /\ (net_fault = "build") => calls = <<>>
    /\ (net_fault \notin {"", "build"}) => calls[Len(calls)] = net_fault
    /\ ChannelMalformed => calls = <<"channels">>
    /\ PlaylistMalformed => calls = <<"channels", "playlistItems">>
    /\ (VideoLacksBlock \/ VideoMalformed) =>
        /\ calls = <<"channels", "playlistItems", "videos">>
        /\ Kinds(output) \cap {"bar_chart", "line_chart", "markdown"} = {}
    /\ (pc = "idle" /\ outcome = "error" /\ Len(calls) >= 2) =>
        /\ Len(output) >= Len(PageTop) + 4
        /\ \A i \in 1..3 : output[Len(PageTop) + i].kind \in HeaderKinds
    /\ (pc = "idle" /\ outcome = "error" /\ Called("generate_content")) =>
        {"bar_chart", "line_chart"} \subseteq Kinds(output)
    /\ (RunEnded /\ video_resp # None /\ video_resp[1].items = <<>>) =>
        /\ outcome = "error"
        /\ ~Called("generate_content")

C3_Witness ==
    /\ VideoLacksBlock
    /\ outcome = "error"
    /\ "image" \in Kinds(output)

\* The record a well-formed item must give, from the catalogue.
WellFormed(items) ==
    \A i \in 1..Len(items) :
        /\ items[i].blocks = {"snippet", "statistics"}
        /\ items[i].thumb
        /\ \A f \in DOMAIN items[i].statistics : items[i].statistics[f] # <<"x">>

Expected(item, f) ==
    IF f \notin DOMAIN item.statistics THEN 0
    ELSE CASE f = "viewCount" -> ViewsOf(item.id)
           [] f = "likeCount" -> LikesOf(item.id)
           [] OTHER -> CommentsOf(item.id)

\* C4: when every item of the videos response has its blocks, the fetch
\* does not fail (a run that ends in the handler after it got as far as the
\* charts), and in each record a counter whose field is absent is 0
\* whichever other counters are present, while the present counters and the
\* title are those of the item.
C4_AbsentCounterIsZero ==
    (video_resp # None /\ WellFormed(video_resp[1].items)) =>
        /\ (pc = "idle" /\ outcome = "error" /\ Len(calls) = 3) =>
              "divider" \in Kinds(output)
        /\ Len(video_data) = Len(video_resp[1].items)
        /\ \A i \in 1..Len(video_data) :
            /\ video_data[i].Views = Expected(video_resp[1].items[i], "viewCount")
            /\ video_data[i].Likes = Expected(video_resp[1].items[i], "likeCount")
            /\ video_data[i].Comments = Expected(video_resp[1].items[i], "commentCount")
            /\ video_data[i].Views >= 0
            /\ video_data[i].Likes >= 0
            /\ video_data[i].Comments >= 0
            /\ video_data[i].Title = TitleOf(video_resp[1].items[i].id)

C4_Witness ==
    /\ video_resp # None
    /\ \E i \in 1..Len(video_data) :
        /\ DOMAIN video_resp[1].items[i].statistics = {"viewCount", "likeCount"}
        /\ video_data[i].Comments = 0
        /\ video_data[i].Views > 0
        /\ video_data[i].Likes > 0

C6_EveryRunAllStages == RunEnded => calls = AllStages

\* C6 (amended): the requests of a run are a prefix of channels,
\* playlistItems, videos, generate_content (in order, none repeated or
\* retried); each stage works on the previous stage's output; a run that
\* completes issued all four; and a run stops short only when the channel
\* was not found or a step raised.
C6_StagesInOrder ==
    /\ IsPrefix(calls, AllStages)
    /\ (pc = "idle" /\ outcome \notin {"complete", "not_found", "error"}) => calls = <<>>
    /\ Len(calls) >= 1 => channel_req = channel_id_input
    /\ Len(calls) >= 2 =>
        /\ channel_resp # None /\ channel_resp[1].items # <<>>
        /\ playlist_req = channel_resp[1].items[1].uploads
    /\ Len(calls) >= 3 =>
        /\ playlist_resp # None
        /\ Len(video_ids) = Len(playlist_resp[1].items)
        /\ \A i \in 1..Len(video_ids) : video_ids[i] = playlist_resp[1].items[i].videoId
        /\ SplitIds(videos_req) = video_ids
    /\ Len(calls) >= 4 =>
        /\ video_resp # None
        /\ df.rows = video_data
        /\ Len(video_data) = Len(video_resp[1].items)
    /\ outcome = "complete" => calls = AllStages
    /\ (RunEnded /\ calls # AllStages) => outcome \in {"not_found", "error"}
    /\ (pc = "connect" \/ pc = "channel") => calls = <<>>
    /\ pc = "video_ids" => calls = <<"channels">>
    /\ pc = "video_details" => calls = <<"channels", "playlistItems">>
    /\ (pc = "charts" \/ pc = "analyze") => calls = <<"channels", "playlistItems", "videos">>

C6_Witness ==
    /\ outcome = "complete"
    /\ calls = AllStages
    /\ playlist_req = "UUb"
    /\ Len(video_data) >= 2

\* C7: the prompt sent to the model holds the first min(5, n) records of the
\* n-record set, in the set's order, each as row index, title, views and
\* likes and nothing else.
C7_PromptFirstFive ==
    Called("generate_content") =>
        /\ Len(prompt) = (IF Len(video_data) < 5 THEN Len(video_data) ELSE 5)
        /\ \A i \in 1..Len(prompt) :
            /\ DOMAIN prompt[i] = {"index", "Title", "Views", "Likes"}
            /\ prompt[i].index = i - 1
            /\ prompt[i].Title = video_data[i].Title
            /\ prompt[i].Views = video_data[i].Views
            /\ prompt[i].Likes = video_data[i].Likes

C7_Witness ==
    /\ Called("generate_content")
    /\ Len(video_data) > 5
    /\ Len(prompt) = 5
    /\ prompt[1].Views < prompt[2].Views
    /\ video_data[6].Views > prompt[5].Views

\* C8: the records follow the items of the videos response one for one, in
\* the order of the response, whatever the order of the identifiers asked.
C8_ResponseOrder ==
    (video_resp # None /\ pc \in {"charts", "analyze"}) =>
        /\ Len(video_data) = Len(video_resp[1].items)
        /\ \A i \in 1..Len(video_data) :
            /\ video_data[i].Title = video_resp[1].items[i].title
            /\ video_data[i].Thumbnail = video_resp[1].items[i].id

C8_Witness ==
    /\ pc = "charts"
    /\ Len(video_ids) >= 3
    /\ Len(video_data) = Len(video_ids)
    /\ \A i \in 1..Len(video_ids) :
        video_data[i].Thumbnail = video_ids[Len(video_ids) + 1 - i]

\* C9: while a credential is missing no external request is ever issued
\* and no run gets past the startup block.
C9_NoRequestWithoutKeys ==
    ("YOUTUBE_API_KEY" \notin secrets \/ "GEMINI_API_KEY" \notin secrets) =>
        /\ calls = <<>>
        /\ pc = "idle"
        /\ ~sidebar
        /\ outcome \in {"new", "stopped"}

C9_Witness ==
    /\ secrets = {"YOUTUBE_API_KEY"}
    /\ outcome = "stopped"
    /\ trigger = "rerun"

\* C10: the analyze flag is a one-way latch.  No step clears it; the
\* pipeline is never running unless the button has been pressed in the
\* session; every run that starts with the flag set (pressed again or not)
\* enters the pipeline; and the channels request carries the channel id of
\* the run.
C10_Latch ==
    [][ /\ ("analyze" \in session_state => "analyze" \in session_state')
        /\ (pc' # "idle" => pressed' /\ "analyze" \in session_state')
        /\ (pc = "idle" /\ sidebar' /\ "analyze" \in session_state) =>
              (pc' = "connect" /\ "analyze" \in session_state')
        /\ (pc = "idle" /\ ~pressed') => pc' = "idle"
        /\ (calls' # <<>>) => channel_req' = channel_id_input'
      ]_vars

C10_Witness ==
    /\ trigger = "edit"
    /\ "analyze" \in session_state
    /\ channel_id_input # DefaultChannelId
    /\ calls = <<"channels">>
    /\ channel_req = channel_id_input

====
